---- MODULE Spec2Model ----
(***************************************************************************)
(* Model of the hms URL shortener: the route dispatcher, the three route   *)
(* handlers and the link creation transaction (createShortenedURL), over a *)
(* datastore of Link entities keyed by store-assigned integer ids.         *)
(*                                                                         *)
(* Paths are sequences of one-character strings, so that the regular       *)
(* expressions of the route table and the path codec can be computed.      *)
(***************************************************************************)
EXTENDS Integers, Sequences, FiniteSets, TLC

\* ------------------------------------------------------------------ bounds
MaxReq == 2          \* create calls in one behaviour of Spec
MaxResolveReq == 1   \* create calls in one behaviour of SpecResolve, SpecRoute
MaxLinks == 3        \* Link entities the datastore allocates ids for
MaxUrlMatches == 2   \* URLMatch entities the older handler puts

\* RunInTransaction with nil options runs the function at most three times
MaxAttempts == 3

Reqs == 1..MaxReq

\* ------------------------------------------------------------- characters
LowerChars ==
  {"a","b","c","d","e","f","g","h","i","j","k","l","m",
   "n","o","p","q","r","s","t","u","v","w","x","y","z"}

UpperChars ==
  {"A","B","C","D","E","F","G","H","I","J","K","L","M",
   "N","O","P","Q","R","S","T","U","V","W","X","Y","Z"}

DigitChars == {"0","1","2","3","4","5","6","7","8","9"}

\* the class [yA-Z0-9-] of the first route pattern
AutoChars == {"y"} \cup UpperChars \cup DigitChars \cup {"-"}

IsLowercase(ch) == ch \in LowerChars

\* ------------------------------------------------------------- path codec
\* The fixed ordered alphabet of the codec: upper-case letters and digits.
ALPHABET == <<"B", "C", "2">>

Base == Len(ALPHABET)

DigitOf(ch) == CHOOSE i \in 1..Base : ALPHABET[i] = ch

RECURSIVE ShortURLEncode(_)
ShortURLEncode(n) ==
  IF n < Base
    THEN <<ALPHABET[n + 1]>>
    ELSE ShortURLEncode(n \div Base) \o <<ALPHABET[(n % Base) + 1]>>

RECURSIVE HornerValue(_, _)
HornerValue(s, acc) ==
  IF s = <<>> THEN acc
  ELSE HornerValue(Tail(s), acc * Base + (DigitOf(Head(s)) - 1))

\* -1 for every string that ShortURLEncode does not produce
ShortURLDecode(s) ==
  IF s = <<>> \/ \E i \in 1..Len(s) : \A k \in 1..Base : ALPHABET[k] # s[i]
    THEN -1
    ELSE LET v == HornerValue(s, 0)
         IN  IF ShortURLEncode(v) = s THEN v ELSE -1

\* -------------------------------------------------------------- the routes
Routes == {"auto", "manual", "index"}

NoMatch == <<"nomatch">>

Min(S) == CHOOSE x \in S : \A y \in S : x <= y

\* "/([yA-Z0-9-]+)[/]?$": the positions where a match can start
AutoStarts(p) ==
  {i \in 1..Len(p) :
     /\ p[i] = "/"
     /\ \E j \in (i + 1)..Len(p) :
          /\ \A k \in (i + 1)..j : p[k] \in AutoChars
          /\ \/ j = Len(p)
             \/ j = Len(p) - 1 /\ p[Len(p)] = "/"}

AutoCapture(p) ==
  LET i == Min(AutoStarts(p))
      j == IF p[Len(p)] \in AutoChars THEN Len(p) ELSE Len(p) - 1
  IN  SubSeq(p, i + 1, j)

\* "/([a-z].*)$"
ManualStarts(p) ==
  {i \in 1..Len(p) : p[i] = "/" /\ i < Len(p) /\ p[i + 1] \in LowerChars}

ManualCapture(p) == SubSeq(p, Min(ManualStarts(p)) + 1, Len(p))

\* FindStringSubmatch of a route's pattern on the request path: the
\* parameters handed to the handler (urlComponents[1:]), or NoMatch
shortenerRoutes(route, p) ==
  CASE route = "auto" ->
         IF AutoStarts(p) = {} THEN NoMatch ELSE <<AutoCapture(p)>>
    [] route = "manual" ->
         IF ManualStarts(p) = {} THEN NoMatch ELSE <<ManualCapture(p)>>
    [] route = "index" ->
         IF p # <<>> /\ p[Len(p)] = "/" THEN <<>> ELSE NoMatch

MatchingRoutes(p) == {rt \in Routes : shortenerRoutes(rt, p) # NoMatch}

\* ------------------------------------------------------------- target URLs
ServingHost == "hms.io"     \* r.Host of every request

Targets ==
  {"", "%zz", "ftp://ex.com/f", "ftp://hms.io/f", "http://hms.io/l",
   "http://ex.com/y", "http://ex.com/w", "https://ex.com/z"}

\* url.Parse of the targets above
urlParse(t) ==
  CASE t = "%zz" ->
         [ok |-> FALSE, Scheme |-> "", Host |-> "", Path |-> ""]
    [] t = "ftp://ex.com/f" ->
         [ok |-> TRUE, Scheme |-> "ftp", Host |-> "ex.com", Path |-> "/f"]
    [] t = "ftp://hms.io/f" ->
         [ok |-> TRUE, Scheme |-> "ftp", Host |-> "hms.io", Path |-> "/f"]
    [] t = "http://hms.io/l" ->
         [ok |-> TRUE, Scheme |-> "http", Host |-> "hms.io", Path |-> "/l"]
    [] t = "http://ex.com/y" ->
         [ok |-> TRUE, Scheme |-> "http", Host |-> "ex.com", Path |-> "/y"]
    [] t = "http://ex.com/w" ->
         [ok |-> TRUE, Scheme |-> "http", Host |-> "ex.com", Path |-> "/w"]
    [] t = "https://ex.com/z" ->
         [ok |-> TRUE, Scheme |-> "https", Host |-> "ex.com", Path |-> "/z"]
    [] t = "http://ex.com/n" ->
         [ok |-> TRUE, Scheme |-> "http", Host |-> "ex.com", Path |-> "/n"]
    [] OTHER ->
         [ok |-> TRUE, Scheme |-> "", Host |-> "", Path |-> t]

\* (*url.URL).String
urlString(u) ==
  IF u.Scheme = "" /\ u.Host = "" THEN u.Path
  ELSE (IF u.Scheme = "" THEN "" ELSE u.Scheme \o ":") \o "//" \o u.Host \o u.Path

\* ------------------------------------------------------------------- state
VARIABLES
  links,     \* the Link entities: links[id] is the entity with IntID id
  chats,     \* the external ids that have a Chat entity
  pc,        \* where each create call is
  req,       \* the arguments of each create call: path, target, chatID; and
             \* whether a failure of its collision lookup hid a matching link,
             \* whether the call has written to the datastore, how its
             \* request for the music info ended, and, for a call made for
             \* the creation form, the chatID of the form and whether the
             \* path was free in that chat when the form was submitted
  loc,       \* the locals of each create call (u, chatKey, newKey, finalPath)
  res,       \* what each create call returned
  prior,     \* the create calls that had succeeded when this one was issued
  lastGet,   \* the observed resolution request and the response to it
  urlMatches \* the number of URLMatch entities (older handler)

vars == <<links, chats, pc, req, loc, res, prior, lastGet, urlMatches>>

NoUser == "nil"                         \* user.Current(c) == nil
ALLOWED_EMAILS == {"u@hms.io"}
Users == {NoUser, "u@hms.io", "z@evil.io"}

\* the session and r.FormValue("creator") of a create call
Sessions ==
  {[user |-> NoUser, creator |-> ""],
   [user |-> NoUser, creator |-> "u@hms.io"],
   [user |-> "u@hms.io", creator |-> ""]}

CreatePaths == {<<>>, <<"a", "b">>, <<"a", "/", "b">>}
CreateChatIDs == {-1, 7}

NoReq ==
  [path |-> <<>>, target |-> "", chatID |-> -1, issued |-> 0, masked |-> FALSE,
   wrote |-> FALSE, fetch |-> "none", form |-> "none", missed |-> FALSE]

LocInit ==
  [TargetURL |-> "", Created |-> 0, Creator |-> "", ChatKey |-> {},
   MusicInfo |-> "", newKey |-> 0, finalPath |-> <<>>, attempt |-> 0]

Pending == [err |-> "pending", path |-> <<>>]
Failed(e) == [err |-> e, path |-> <<>>]
Succeeded(p) == [err |-> "", path |-> p]

NoGet ==
  [path |-> <<>>, user |-> NoUser, chatID |-> "", route |-> "none",
   status |-> 0, location |-> ""]

Init ==
  /\ links = <<>>
  /\ chats = {}
  /\ pc = [r \in Reqs |-> "idle"]
  /\ req = [r \in Reqs |-> NoReq]
  /\ loc = [r \in Reqs |-> LocInit]
  /\ res = [r \in Reqs |-> Pending]
  /\ prior = [r \in Reqs |-> {}]
  /\ lastGet = NoGet
  /\ urlMatches = 0

\* ------------------------------------------------------------ the datastore
LinkIDs == 1..Len(links)

\* the key scope of a chat id: nil (the global scope) when chatID < 0
ScopeOf(chatID) == IF chatID >= 0 THEN {chatID} ELSE {}

\* the Link entities with this path in this scope
MatchingIDs(chatID, path) ==
  {i \in LinkIDs : links[i].Path = path /\ links[i].ChatKey = ScopeOf(chatID)}

\* what getMatchingLink(c, chatID, path) can return: one matching entity and
\* a nil error, an error for a miss, or the error of a failed query
getMatchingLink(chatID, path) ==
  {[err |-> "", id |-> i] : i \in MatchingIDs(chatID, path)}
    \cup (IF MatchingIDs(chatID, path) = {}
            THEN {[err |-> "NoSuchLink", id |-> 0]} ELSE {})
    \cup {[err |-> "StorageError", id |-> 0]}

isValidPath(path) == \A i \in 1..Len(path) : path[i] # "/"

IsLikelyMusicLink(target) == target = "https://ex.com/z"

\* u.MusicInfo set whenever the link is a music link
MusicInfoAlways(target, fetched) ==
  IF IsLikelyMusicLink(target) THEN "info" ELSE ""

\* u.MusicInfo after the enrichment block: set only when the request, the
\* read of the body and the parse all succeed
MusicInfoAfter(target, fetched) ==
  IF IsLikelyMusicLink(target) /\ fetched THEN "info" ELSE ""

\* how the enrichment block ended: not entered, u.MusicInfo set, or an error
\* logged
FetchOutcome(target, fetched) ==
  IF ~IsLikelyMusicLink(target) THEN "none"
  ELSE IF fetched THEN "ok" ELSE "failed"

\* handleUserAuth: a signed-in user whose email is in the allowed list
handleUserAuth(user) == user # NoUser /\ user \in ALLOWED_EMAILS

\* the chat id of the chatID form value: none for a value that is no number
ChatStrings == {"", "7", "x"}
ParseChatID(str) ==
  CASE str = "" -> [ok |-> TRUE, id |-> -1]
    [] str = "7" -> [ok |-> TRUE, id |-> 7]
    [] OTHER -> [ok |-> FALSE, id |-> -1]

\* ------------------------------------------------------ createShortenedURL
\* the checks made before the datastore is touched; "" when all pass
validate(path, target) ==
  IF target = "" THEN "EmptyTarget"
  ELSE IF ~isValidPath(path) THEN "InvalidPath"
  ELSE IF ~urlParse(target).ok THEN "InvalidTarget"
  ELSE IF urlParse(target).Host = ServingHost THEN "RedirectLoop"
  ELSE IF urlParse(target).Scheme # "http" /\ urlParse(target).Scheme # "https"
    THEN "UnsupportedScheme"
  ELSE ""

Return(r, result) ==
  /\ pc' = [pc EXCEPT ![r] = "done"]
  /\ res' = [res EXCEPT ![r] = result]
  /\ loc' = [loc EXCEPT ![r] = LocInit]

DoneOK == {q \in Reqs : pc[q] = "done" /\ res[q].err = ""}

\* the call starts: path and target are read and validated; the time of
\* u.Created is the time of this issue of the call
Begin(r, rq) ==
  /\ req' = [req EXCEPT ![r] = rq]
  /\ prior' = [prior EXCEPT ![r] = DoneOK]
  /\ IF validate(rq.path, rq.target) # ""
       THEN Return(r, Failed(validate(rq.path, rq.target)))
       ELSE /\ pc' = [pc EXCEPT ![r] = "precheck"]
            /\ loc' = [loc EXCEPT ![r] =
                 [LocInit EXCEPT !.TargetURL = urlString(urlParse(rq.target)),
                                 !.Created = rq.issued]]
            /\ res' = res
  /\ UNCHANGED <<links, chats, lastGet, urlMatches>>

\* a create call is issued
Create(r, paths, targets, chatIDs) ==
  /\ pc[r] = "idle"
  /\ \E path \in paths, target \in targets, chatID \in chatIDs :
       Begin(r, [path |-> path, target |-> target, chatID |-> chatID,
                 issued |-> 1, masked |-> FALSE, wrote |-> FALSE,
                 fetch |-> "none", form |-> "none", missed |-> FALSE])

\* handleChatIndex for a POST of the creation form by an allowed user, with
\* the form values path, target and chatID: the path is checked for its
\* lowercase first character and createShortenedURL(r, -1) is called
IndexPost(r, users, paths, targets, chatStrs) ==
  /\ pc[r] = "idle"
  /\ \E user \in users, path \in paths, target \in targets, str \in chatStrs :
       /\ handleUserAuth(user)
       /\ IF path = <<>> THEN TRUE ELSE IsLowercase(path[1])
       /\ Begin(r, [path |-> path, target |-> target, chatID |-> -1,
                    issued |-> 1, masked |-> FALSE, wrote |-> FALSE,
                    fetch |-> "none", form |-> str,
                    missed |-> /\ path # <<>>
                               /\ ParseChatID(str).ok
                               /\ MatchingIDs(ParseChatID(str).id, path) = {}])

\* the caller issues the whole call again, with the same arguments, after a
\* storage error
Retry(r) ==
  /\ pc[r] = "done"
  /\ res[r].err = "StorageError"
  /\ req[r].issued = 1
  /\ Begin(r, [req[r] EXCEPT !.issued = 2, !.wrote = FALSE, !.fetch = "none"])

\* the creator of the link: the session's user, else the form's creator
CreatorOf(s) == IF s.user = NoUser THEN s.creator ELSE s.user

\* the collision check, the creator, and (without a chat) the enrichment
PreCheck(r, sessions) ==
  /\ pc[r] = "precheck"
  /\ \E found \in getMatchingLink(req[r].chatID, req[r].path),
        s \in sessions, fetched \in BOOLEAN :
       /\ req' = [req EXCEPT ![r].masked =
                    \/ req[r].masked
                    \/ /\ found.err = "StorageError"
                       /\ MatchingIDs(req[r].chatID, req[r].path) # {},
                               ![r].fetch =
                    IF found.err # "" /\ CreatorOf(s) # "" /\ req[r].chatID < 0
                      THEN FetchOutcome(loc[r].TargetURL, fetched)
                      ELSE req[r].fetch]
       /\ IF found.err = ""
            THEN Return(r, Failed("PathTaken"))
          ELSE IF CreatorOf(s) = ""
            THEN Return(r, Failed("MissingCreator"))
          ELSE IF req[r].chatID >= 0
            THEN /\ pc' = [pc EXCEPT ![r] = "chat"]
                 /\ loc' = [loc EXCEPT ![r].Creator = CreatorOf(s)]
                 /\ res' = res
          ELSE /\ pc' = [pc EXCEPT ![r] = "put1"]
               /\ loc' = [loc EXCEPT ![r].Creator = CreatorOf(s),
                                     ![r].MusicInfo =
                                        MusicInfoAfter(loc[r].TargetURL, fetched),
                                     ![r].finalPath = req[r].path,
                                     ![r].attempt = 1]
               /\ res' = res
  /\ UNCHANGED <<links, chats, prior, lastGet, urlMatches>>

\* getOrCreateChat called before the creator is looked at
ResolveChatBeforeCreator(r) ==
  /\ pc[r] = "chat"
  /\ chats' = chats \cup {req[r].chatID}
  /\ req' = [req EXCEPT ![r].wrote = TRUE]
  /\ Return(r, Failed("MissingCreator"))
  /\ UNCHANGED <<links, prior, lastGet, urlMatches>>

\* getOrCreateChat, then the enrichment
ResolveChat(r) ==
  /\ pc[r] = "chat"
  /\ \/ /\ chats' = chats \cup {req[r].chatID}
        /\ \E fetched \in BOOLEAN :
             /\ loc' = [loc EXCEPT ![r].ChatKey = {req[r].chatID},
                                   ![r].MusicInfo =
                                      MusicInfoAfter(loc[r].TargetURL, fetched),
                                   ![r].finalPath = req[r].path,
                                   ![r].attempt = 1]
             /\ req' = [req EXCEPT ![r].wrote = TRUE,
                                   ![r].fetch =
                                      FetchOutcome(loc[r].TargetURL, fetched)]
        /\ pc' = [pc EXCEPT ![r] = "put1"]
        /\ res' = res
     \/ /\ Return(r, Failed("StorageError"))
        /\ chats' = chats
        /\ req' = req
  /\ UNCHANGED <<links, prior, lastGet, urlMatches>>

\* the entity u as it is put; by is the create call that put it
LinkOf(r, path) ==
  [Path |-> path, TargetURL |-> loc[r].TargetURL, Creator |-> loc[r].Creator,
   Created |-> loc[r].Created, ChatKey |-> loc[r].ChatKey,
   MusicInfo |-> loc[r].MusicInfo, by |-> r]

\* datastore.Put(c, NewIncompleteKey, &u): on the request's context c, not
\* on the transaction's, so the entity is written at once
PutIncomplete(r) ==
  /\ pc[r] = "put1"
  /\ \/ /\ Len(links) < MaxLinks
        /\ links' = Append(links, LinkOf(r, req[r].path))
        /\ loc' = [loc EXCEPT ![r].newKey = Len(links) + 1]
        /\ pc' = [pc EXCEPT ![r] = IF req[r].path = <<>> THEN "put2" ELSE "commit"]
        /\ res' = res
        /\ req' = [req EXCEPT ![r].wrote = TRUE]
     \/ /\ Return(r, Failed("StorageError"))
        /\ links' = links
        /\ req' = req
  /\ UNCHANGED <<chats, prior, lastGet, urlMatches>>

\* linkCopy built without the target of u
LinkCopyNoTarget(r) ==
  [LinkOf(r, ShortURLEncode(loc[r].newKey)) EXCEPT !.TargetURL = ""]

\* linkCopy: u with the path encoded from the new key
LinkCopy(r) == LinkOf(r, ShortURLEncode(loc[r].newKey))

\* linkCopy put under a new incomplete key
PutFinalAsNewEntity(r) ==
  /\ pc[r] = "put2"
  /\ links' = Append(links, LinkCopy(r))
  /\ loc' = [loc EXCEPT ![r].finalPath = ShortURLEncode(loc[r].newKey)]
  /\ pc' = [pc EXCEPT ![r] = "commit"]
  /\ res' = res
  /\ req' = [req EXCEPT ![r].wrote = TRUE]
  /\ UNCHANGED <<chats, prior, lastGet, urlMatches>>

\* datastore.Put(c, newKey, &linkCopy), then finalPath = newPath
PutFinal(r) ==
  /\ pc[r] = "put2"
  /\ \/ /\ links' = [links EXCEPT ![loc[r].newKey] = LinkCopy(r)]
        /\ loc' = [loc EXCEPT ![r].finalPath = ShortURLEncode(loc[r].newKey)]
        /\ pc' = [pc EXCEPT ![r] = "commit"]
        /\ res' = res
        /\ req' = [req EXCEPT ![r].wrote = TRUE]
     \/ /\ Return(r, Failed("StorageError"))
        /\ links' = links
        /\ req' = req
  /\ UNCHANGED <<chats, prior, lastGet, urlMatches>>

\* RunInTransaction commits after the function returned nil: the commit
\* succeeds, or conflicts and the function is run again, or fails
Commit(r) ==
  /\ pc[r] = "commit"
  /\ \/ Return(r, Succeeded(loc[r].finalPath))
     \/ /\ loc[r].attempt < MaxAttempts
        /\ pc' = [pc EXCEPT ![r] = "put1"]
        /\ loc' = [loc EXCEPT ![r].attempt = loc[r].attempt + 1]
        /\ res' = res
     \/ Return(r, Failed("StorageError"))
  /\ UNCHANGED <<links, chats, req, prior, lastGet, urlMatches>>

\* the steps of a create call after it was issued
CreateSteps(r, sessions) ==
  \/ PreCheck(r, sessions)
  \/ ResolveChat(r)
  \/ PutIncomplete(r)
  \/ PutFinal(r)
  \/ Commit(r)

\* --------------------------------------------------------- the handlers
Response(route, status, location) ==
  [route |-> route, status |-> status, location |-> location]

\* getMatchingLinkChatString(c, strChatID, path)
getMatchingLinkChatString(str, path) ==
  IF ParseChatID(str).ok
    THEN getMatchingLink(ParseChatID(str).id, path)
    ELSE {[err |-> "NumError", id |-> 0]}

\* datastore.Get(c, NewKey(c, "Link", "", id, nil), &link)
datastoreGet(id) ==
  (IF id \in LinkIDs THEN {[err |-> "", id |-> id]}
   ELSE IF id = 0 THEN {} ELSE {[err |-> "ErrNoSuchEntity", id |-> 0]})
    \cup {[err |-> "StorageError", id |-> 0]}

\* the responses handleAutoShortURL can give
handleAutoShortURL(params, user) ==
  IF ~handleUserAuth(user) THEN {Response("auto", 403, <<>>)}
  ELSE IF ShortURLDecode(params[1]) < 0 THEN {Response("auto", 404, <<>>)}
  ELSE {IF got.err = "" THEN Response("auto", 302, <<"url", links[got.id].TargetURL>>)
        ELSE IF got.err = "ErrNoSuchEntity" THEN Response("auto", 404, <<>>)
        ELSE Response("auto", 500, <<>>) :
          got \in datastoreGet(ShortURLDecode(params[1]))}

\* the responses handleManualShortURL can give
handleManualShortURL(params, user, strChatID) ==
  IF ~handleUserAuth(user) THEN {Response("manual", 403, <<>>)}
  ELSE {IF got.err = ""
          THEN Response("manual", 302, <<"url", links[got.id].TargetURL>>)
        ELSE IF got.err = "NumError" THEN Response("manual", 401, <<>>)
        ELSE Response("manual", 302, <<"prompt", params[1], strChatID>>) :
          got \in getMatchingLinkChatString(strChatID, params[1])}

\* the responses handleChatIndex can give to a GET: the listing query
\* succeeds or fails
handleChatIndex(user) ==
  IF ~handleUserAuth(user) THEN {Response("index", 403, <<>>)}
  ELSE {Response("index", 200, <<>>), Response("index", 500, <<>>)}

\* the responses handleChatIndex can give to a POST whose call of
\* createShortenedURL(r, -1), when it is made, returns result
handleChatIndexPost(user, path, result) ==
  IF ~handleUserAuth(user) THEN {Response("index", 403, <<>>)}
  ELSE IF path # <<>> /\ ~IsLowercase(path[1])
    THEN {Response("index", 200, <<"message">>), Response("index", 500, <<>>)}
  ELSE IF result.err # "" THEN {Response("index", 500, <<>>)}
  ELSE {Response("index", 200, <<"created", result.path>>),
        Response("index", 500, <<>>)}

\* the handler of a route, applied to the pattern's submatches
Handle(route, params, user, strChatID) ==
  CASE route = "auto" -> handleAutoShortURL(params, user)
    [] route = "manual" -> handleManualShortURL(params, user, strChatID)
    [] route = "index" -> handleChatIndex(user)

\* ranging over the route map visits the routes in an unspecified order, so
\* any of the matching routes can be the one that handles the request
ShortenerHandler(p, user, strChatID) ==
  IF MatchingRoutes(p) = {} THEN {Response("none", 404, <<>>)}
  ELSE UNION {Handle(rt, shortenerRoutes(rt, p), user, strChatID) :
                rt \in MatchingRoutes(p)}

\* a GET request is served; a behaviour observes one of them, at any point
Resolve(paths, users, chatStrs) ==
  /\ lastGet = NoGet
  /\ \E p \in paths, user \in users, str \in chatStrs :
       \E resp \in ShortenerHandler(p, user, str) :
         lastGet' = [path |-> p, user |-> user, chatID |-> str,
                     route |-> resp.route, status |-> resp.status,
                     location |-> resp.location]
  /\ UNCHANGED <<links, chats, pc, req, loc, res, prior, urlMatches>>

\* ------------------------------------------- the older handler (hms.go)
LegacyTargets ==
  {"", "%zz", "ftp://ex.com/f", "http://hms.io/l", "http://ex.com/y", "ex.com/n"}

LegacyFormPaths == {<<>>, <<"a", "b">>, <<"a", "/", "b">>}

\* createRandomPath(4): four letters of LETTERS
LegacyRandomPaths == {<<"q", "Z", "k", "a">>, <<"T", "m", "b", "x">>}

LegacyReqPaths == {<<"/">>, <<"/", "a", "b">>, <<"/", "z", "z">>}

\* parsedUrl after the scheme is defaulted to http
legacyDefaultScheme(u) == IF u.Scheme = "" THEN [u EXCEPT !.Scheme = "http"] ELSE u

\* the Link entities with this path, of any scope
legacyMatchingIDs(path) == {i \in LinkIDs : links[i].Path = path}

\* createShortenedURL(r) of hms.go: the errors and paths it can return, each
\* with the Link entities afterwards. The error of the Count query is
\* dropped (the count is then 0), and the Put succeeds or fails
legacyCreateShortenedURL(path, target, user) ==
  LET u(p) == [Path |-> p,
               TargetURL |-> urlString(legacyDefaultScheme(urlParse(target))),
               Creator |-> user]
      fail(e) == [err |-> e, path |-> <<>>, links |-> links]
      put(p) == {fail("StorageError")} \cup
                  (IF Len(links) < MaxLinks
                     THEN {[err |-> "", path |-> p, links |-> Append(links, u(p))]}
                     ELSE {})
      count(p) == put(p) \cup
                    (IF legacyMatchingIDs(p) # {} THEN {fail("PathTaken")} ELSE {})
  IN  IF target = "" THEN {fail("EmptyTarget")}
      ELSE IF path # <<>> /\ ~isValidPath(path) THEN {fail("InvalidPath")}
      ELSE IF ~urlParse(target).ok THEN {fail("InvalidTarget")}
      ELSE IF urlParse(target).Host = ServingHost THEN {fail("RedirectLoop")}
      ELSE IF path = <<>> THEN UNION {count(rnd) : rnd \in LegacyRandomPaths}
      ELSE count(path)

\* getMatchingLink(requestPath, c) of hms.go: Filter("Path =", path).Limit(1)
legacyGetMatchingLink(reqPath) ==
  {[err |-> "", found |-> {i}] : i \in legacyMatchingIDs(Tail(reqPath))}
    \cup (IF legacyMatchingIDs(Tail(reqPath)) = {}
            THEN {[err |-> "", found |-> {}]} ELSE {})
    \cup {[err |-> "StorageError", found |-> {}]}

\* the status of a response: the failed listing of the past links has
\* already answered 500
legacyStatus(listed, status) == IF listed THEN status ELSE 500

\* the request of ShortenerHandler of hms.go is served and the response
\* recorded
legacyServe(reqPath, method, user, newLinks, resp) ==
  /\ links' = newLinks
  /\ lastGet' = [path |-> reqPath, user |-> user, chatID |-> "",
                 route |-> resp.route, status |-> resp.status,
                 location |-> resp.location]

\* reqPath == "/": the index page, or the creation of a link
legacyIndex(user, listed) ==
  \/ /\ user = NoUser
     /\ \E method \in {"GET", "POST"} :
          legacyServe(<<"/">>, method, user, links,
                      Response("legacy", legacyStatus(listed, 302), <<"login">>))
  \/ /\ user # NoUser /\ ~handleUserAuth(user)
     /\ \E method \in {"GET", "POST"} :
          legacyServe(<<"/">>, method, user, links,
                      Response("legacy", legacyStatus(listed, 200),
                               <<"unauthorized">>))
  \/ /\ handleUserAuth(user)
     /\ legacyServe(<<"/">>, "GET", user, links,
                    Response("legacy", legacyStatus(listed, 200), <<"index">>))
  \/ /\ handleUserAuth(user)
     /\ \E path \in LegacyFormPaths, target \in LegacyTargets :
          \E created \in legacyCreateShortenedURL(path, target, user) :
            legacyServe(<<"/">>, "POST", user, created.links,
                        IF created.err # ""
                          THEN Response("legacy", 500, <<"error", created.err>>)
                          ELSE Response("legacy", legacyStatus(listed, 200),
                                        <<"created", created.path>>))

\* every other path: the lookup of the link, for any user
legacyLookup(reqPath, user, listed) ==
  /\ reqPath # <<"/">>
  /\ \E got \in legacyGetMatchingLink(reqPath) :
       legacyServe(reqPath, "GET", user, links,
                   IF got.err # "" THEN Response("legacy", 500, <<>>)
                   ELSE IF got.found = {}
                     THEN Response("legacy", legacyStatus(listed, 200),
                                   <<"notfound">>)
                   ELSE Response("legacy", legacyStatus(listed, 302),
                                 <<"url", links[CHOOSE i \in got.found : TRUE].TargetURL>>))

\* ShortenerHandler of hms.go, for every request: a URLMatch entity is put
\* (the error is dropped), the past links are listed, then the request is
\* served
LegacyShortenerHandler ==
  /\ \/ urlMatches < MaxUrlMatches /\ urlMatches' = urlMatches + 1
     \/ urlMatches' = urlMatches
  /\ \E user \in Users, listed \in BOOLEAN :
       \/ legacyIndex(user, listed)
       \/ \E reqPath \in LegacyReqPaths : legacyLookup(reqPath, user, listed)
  /\ UNCHANGED <<chats, pc, req, loc, res, prior>>

NextLegacy == LegacyShortenerHandler

\* the older handler alone
SpecLegacy == Init /\ [][NextLegacy]_vars

\* ------------------------------------------------------ the specifications
Next ==
  \E r \in Reqs :
    \/ Create(r, CreatePaths, Targets, CreateChatIDs)
    \/ CreateSteps(r, Sessions)
    \/ Retry(r)

\* every create call, with every kind of argument
Spec == Init /\ [][Next]_vars

\* the paths of the ids the store can allocate (and of id 0), and a manual
\* path
AutoPaths == {<<"/">> \o ShortURLEncode(i) : i \in 0..MaxLinks}

ResolvePaths == AutoPaths \cup {<<"/", "a", "b">>}

ValidTargets == {"http://ex.com/y", "http://ex.com/w"}

ResolveReqs == 1..MaxResolveReq

NextResolve ==
  \/ \E r \in ResolveReqs :
       \/ Create(r, {<<>>, <<"a", "b">>}, ValidTargets, CreateChatIDs)
       \/ CreateSteps(r, {[user |-> "u@hms.io", creator |-> ""]})
  \/ Resolve(ResolvePaths, {"u@hms.io", "z@evil.io"}, {""})

\* create calls with valid arguments, and the resolution of their paths
SpecResolve == Init /\ [][NextResolve]_vars

\* request paths that match no, one, two and three route patterns
DispatchPaths ==
  {<<"/">>, <<"/", "a", "b">>, <<"/", "y">>, <<"/", "C">>, <<"/", "C", "/">>,
   <<"/", "a", "/">>, <<"/", "y", "/">>, <<"/", "_">>, <<"/", "a", "/", "C">>}

NextRoute ==
  \/ \E r \in ResolveReqs :
       \/ Create(r, {<<>>, <<"y">>, <<"a", "b">>}, {"http://ex.com/y"},
                 CreateChatIDs)
       \/ IndexPost(r, Users, {<<>>, <<"y">>, <<"a", "b">>, <<"C">>},
                    {"http://ex.com/y"}, ChatStrings)
       \/ CreateSteps(r, {[user |-> "u@hms.io", creator |-> ""]})
  \/ Resolve(DispatchPaths, Users, ChatStrings)

\* the dispatch of request paths
SpecRoute == Init /\ [][NextRoute]_vars

\* ---------------------------------------------------------------- claims
\* the Link entities a create call has put
PutBy(r) == {i \in LinkIDs : links[i].by = r}

Done(r) == pc[r] = "done"

\* two create calls none of which had succeeded when the other was issued
Concurrent(r1, r2) == r1 # r2 /\ r1 \notin prior[r2] /\ r2 \notin prior[r1]

\* no failed collision lookup of the call hid a link that matched
Unmasked(r) == ~req[r].masked

SameManualPath(r1, r2) ==
  /\ req[r1].issued > 0 /\ req[r2].issued > 0
  /\ req[r1].path # <<>>
  /\ req[r1].path = req[r2].path
  /\ req[r1].chatID = req[r2].chatID

\* C1: of two concurrent create calls with the same non-empty path in the
\* same scope at most one succeeds, and the store never holds a link of each
\* of them with that path in that scope (stated for the calls whose
\* collision lookups did not fail on a matching link).
C1_ConcurrentManualCreatesExclude ==
  \A r1, r2 \in Reqs :
    (/\ Concurrent(r1, r2) /\ SameManualPath(r1, r2)
     /\ Unmasked(r1) /\ Unmasked(r2)) =>
      /\ ~(r1 \in DoneOK /\ r2 \in DoneOK)
      /\ ~(PutBy(r1) # {} /\ PutBy(r2) # {})

\* C2: a create call with an empty path whose commit is retried (the
\* transaction function is run again, or the call is issued again after a
\* storage error) leaves one link for that creation, not two, and a call that
\* succeeded has exactly one, stored under the path it returned.
C2_RetriedAutoCreateConverges ==
  \A r \in Reqs :
    (req[r].issued > 0 /\ req[r].path = <<>>) =>
      /\ Cardinality(PutBy(r)) <= 1
      /\ (r \in DoneOK =>
            \E i \in LinkIDs : PutBy(r) = {i} /\ links[i].Path = res[r].path)

\* C3: concurrent create calls with an empty path in the same scope never
\* conflict: none of them fails with PathTaken.
C3_ConcurrentAutoCreatesNeverConflict ==
  \A r1, r2 \in Reqs :
    (/\ Concurrent(r1, r2)
     /\ req[r1].issued = 1 /\ req[r2].issued = 1
     /\ req[r1].path = <<>> /\ req[r2].path = <<>>
     /\ req[r1].chatID = req[r2].chatID
     /\ Done(r2)) =>
      res[r2].err # "PathTaken"

\* C4: the insert and the path finalization are one atomic unit: no link
\* with an empty path is ever visible in the store, and a create call that
\* returned a storage error left no link behind.
C4_CommitIsAtomic ==
  /\ \A i \in LinkIDs : links[i].Path # <<>>
  /\ \A r \in Reqs :
       (Done(r) /\ res[r].err = "StorageError") => PutBy(r) = {}

\* C5: every link in the store that was created with an empty request path
\* has the path ShortURLEncode of its own id, and a create call that
\* succeeded returned that path.
C5_AutoPathIsEncodedID ==
  /\ \A i \in LinkIDs :
       req[links[i].by].path = <<>> => links[i].Path = ShortURLEncode(i)
  /\ \A r \in Reqs :
       (r \in DoneOK /\ req[r].path = <<>>) =>
         \E i \in PutBy(r) : res[r].path = ShortURLEncode(i)

\* C6: after a create call with a non-empty path succeeded, a later create
\* call with that path in that scope, a valid target and a creator fails
\* with PathTaken (or, when the store fails, with a storage error) and
\* writes nothing, and every lookup of the path in the scope still gives the
\* first call's target.
C6_LaterCreateFailsPathTaken ==
  \A r1, r2 \in Reqs :
    (/\ r1 \in prior[r2]
     /\ SameManualPath(r1, r2)
     /\ validate(req[r2].path, req[r2].target) = ""
     /\ req[r2].issued = 1
     /\ Done(r2)
     /\ res[r2].err # "MissingCreator") =>
      /\ res[r2].err \in {"PathTaken", "StorageError"}
      /\ PutBy(r2) = {}
      /\ \A i \in MatchingIDs(req[r1].chatID, req[r1].path) :
           links[i].TargetURL = urlString(urlParse(req[r1].target))

\* C7: a create call with an empty path never fails with PathTaken, whatever
\* links the store holds.
C7_EmptyPathSkipsCollisionCheck ==
  \A r \in Reqs :
    (req[r].issued > 0 /\ req[r].path = <<>>) => res[r].err # "PathTaken"

\* C8: once a create call with an empty path has succeeded and returned its
\* final path, a GET of that path by an allowed user is handled by
\* handleAutoShortURL and, unless the read of the store fails, redirects to
\* the target that create call stored.
C8_AutoPathResolvesToTarget ==
  [][\A r \in Reqs :
       (/\ r \in DoneOK
        /\ req[r].path = <<>>
        /\ lastGet = NoGet
        /\ lastGet' # NoGet
        /\ lastGet'.path = <<"/">> \o res[r].path
        /\ handleUserAuth(lastGet'.user)) =>
         /\ lastGet'.route = "auto"
         /\ lastGet'.status \in {302, 500}
         /\ lastGet'.status = 302 =>
              lastGet'.location = <<"url", urlString(urlParse(req[r].target))>>]_vars

\* a create call with an empty path succeeded and the GET of the path it
\* returned was redirected to its target
C8_Witness ==
  \E r \in Reqs :
    /\ r \in DoneOK
    /\ req[r].path = <<>>
    /\ lastGet.path = <<"/">> \o res[r].path
    /\ lastGet.route = "auto"
    /\ lastGet.status = 302
    /\ lastGet.location = <<"url", urlString(urlParse(req[r].target))>>

\* the route that handles a path when the patterns are tried in the order
\* auto, manual, index
FirstRoute(p) ==
  IF "auto" \in MatchingRoutes(p) THEN "auto"
  ELSE IF "manual" \in MatchingRoutes(p) THEN "manual"
  ELSE IF "index" \in MatchingRoutes(p) THEN "index"
  ELSE "none"

\* C9: a request path is handled by the handler of the first pattern, in the
\* order auto, manual, index, that matches it, and gets 404 when none does.
C9_FirstMatchWins ==
  lastGet # NoGet =>
    /\ lastGet.route = FirstRoute(lastGet.path)
    /\ (MatchingRoutes(lastGet.path) = {} => lastGet.status = 404)

\* C10: with a valid path, a create call whose target parses with a scheme
\* other than http and https fails with UnsupportedScheme, whatever the host
\* of the target.
C10_SchemeCheckedBeforeHost ==
  \A r \in Reqs :
    (/\ Done(r)
     /\ req[r].target # ""
     /\ isValidPath(req[r].path)
     /\ urlParse(req[r].target).ok
     /\ urlParse(req[r].target).Scheme \notin {"http", "https"}) =>
      res[r].err = "UnsupportedScheme"

\* the errors of the validation and of the collision check
RejectErrs ==
  {"EmptyTarget", "InvalidPath", "InvalidTarget", "UnsupportedScheme",
   "RedirectLoop", "MissingCreator", "PathTaken"}

\* C11: a create call that fails the validation (EmptyTarget, InvalidPath,
\* InvalidTarget, UnsupportedScheme, RedirectLoop, MissingCreator) or the
\* collision check (PathTaken) has written nothing to the datastore: it put
\* no link and created no chat; and the step in which it fails leaves the
\* links and the chats as they were.
C11_RejectedCreateWritesNothing ==
  [][\A r \in Reqs :
       (pc'[r] = "done" /\ res'[r].err \in RejectErrs) =>
         /\ ~req'[r].wrote
         /\ (pc[r] # "done" \/ req'[r] # req[r]) =>
              (links' = links /\ chats' = chats)]_vars

\* create calls in a chat scope were rejected with each of the errors, one of
\* them by the collision check while the store held links
C11_Witness ==
  /\ links # <<>>
  /\ \E r1, r2 \in Reqs :
       /\ Done(r1) /\ res[r1].err = "PathTaken" /\ req[r1].chatID >= 0
       /\ Done(r2) /\ res[r2].err = "MissingCreator" /\ req[r2].chatID >= 0

\* C12: a create call with valid arguments whose request for the music info
\* failed (the request, the read of the body or the parse) is not failed by
\* it: it goes on to the Puts, returns no error other than a storage error
\* of the Puts or of the commit, returns the path of the link it stored when
\* it succeeds, and every link it puts carries no music info.
C12_EnrichmentFailureIsIgnored ==
  \A r \in Reqs :
    (req[r].issued = 1 /\ req[r].fetch = "failed") =>
      /\ pc[r] \in {"put1", "put2", "commit", "done"}
      /\ Done(r) => res[r].err \in {"", "StorageError"}
      /\ \A i \in PutBy(r) : links[i].MusicInfo = ""
      /\ r \in DoneOK =>
           \E i \in PutBy(r) : links[i].Path = res[r].path

\* a create call for a music link whose request for the music info failed
\* succeeded and stored the link, and another one's request succeeded
C12_Witness ==
  \E r1, r2 \in Reqs :
    /\ req[r1].fetch = "failed" /\ r1 \in DoneOK /\ PutBy(r1) # {}
    /\ req[r2].fetch = "ok" /\ r2 \in DoneOK
    /\ \E i \in PutBy(r2) : links[i].MusicInfo = "info"

\* the create calls that handleChatIndex can have made for a POST
ViaIndex(r) ==
  /\ Done(r)
  /\ req[r].chatID = -1
  /\ (req[r].path = <<>> \/ IsLowercase(req[r].path[1]))

\* C13: when a create call made for a POST to the index route fails with a
\* validation error or with the collision error, the response has a status
\* of the 4xx class; a status of the 5xx class is given for storage errors
\* only.
C13_CreateErrorsAre4xx ==
  \A r \in Reqs :
    (ViaIndex(r) /\ res[r].err \in RejectErrs) =>
      \A resp \in handleChatIndexPost("u@hms.io", req[r].path, res[r]) :
        resp.status \in 400..499

\* the lookup of handleManualShortURL, for an allowed user and a chat id
\* that parses, never takes a failed query for a miss: the creation prompt is
\* given only when the store has no link with the path in the scope
C14_ManualPromptOnlyOnMiss ==
  (/\ lastGet = NoGet /\ lastGet' # NoGet
   /\ lastGet'.route = "manual"
   /\ handleUserAuth(lastGet'.user)
   /\ ParseChatID(lastGet'.chatID).ok
   /\ MatchingIDs(ParseChatID(lastGet'.chatID).id,
                  ManualCapture(lastGet'.path)) # {}) =>
    \/ lastGet'.status = 302 /\ lastGet'.location[1] = "url"
    \/ lastGet'.status \in 500..599

\* the collision lookup of createShortenedURL never takes a failed query for
\* 'no link': with a link at the path in the scope the call ends there, with
\* PathTaken or with the storage error
C14_CollisionLookupOnlyOnMiss ==
  \A r \in Reqs :
    (/\ pc[r] = "precheck" /\ pc'[r] # "precheck"
     /\ MatchingIDs(req[r].chatID, req[r].path) # {}) =>
      pc'[r] = "done" /\ res'[r].err \in {"PathTaken", "StorageError"}

\* C14: handleManualShortURL redirects to the creation prompt exactly when
\* the lookup is a miss; a storage failure of the lookup is answered with a
\* 5xx status and is never treated as a miss, and a storage failure of the
\* collision lookup of a create call is never treated as 'no link exists'.
C14_StorageFailureIsNotAMiss ==
  [][C14_ManualPromptOnlyOnMiss /\ C14_CollisionLookupOnlyOnMiss]_vars

\* C15: a path that the creation form accepts (not empty, a lowercase first
\* character, no "/") does not match the pattern of the auto route, and a GET
\* of it is handled by handleManualShortURL, never by handleAutoShortURL.
C15_FormPathsAreNotAutoTokens ==
  \A r \in Reqs :
    (/\ ViaIndex(r) /\ r \in DoneOK
     /\ req[r].path # <<>>
     /\ isValidPath(req[r].path)) =>
      /\ "auto" \notin MatchingRoutes(<<"/">> \o req[r].path)
      /\ lastGet.path = <<"/">> \o req[r].path => lastGet.route = "manual"

\* C16: the finalization of an auto path writes the entity with the id that
\* the insert returned and changes its path only: target, creator, creation
\* time, chat key and music info stay those of the inserted entity and the
\* number of links stays; no other write changes a link that is stored, and
\* no link is removed.
C16_FinalizationChangesOnlyThePath ==
  [][/\ Len(links') >= Len(links)
     /\ \A i \in LinkIDs :
          links'[i] # links[i] =>
            /\ Len(links') = Len(links)
            /\ \E r \in Reqs :
                 pc[r] = "put2" /\ pc'[r] = "commit" /\ loc[r].newKey = i
            /\ links[i].Path = <<>>
            /\ links'[i] = [links[i] EXCEPT !.Path = ShortURLEncode(i)]
     /\ \A r \in Reqs :
          (pc[r] = "put2" /\ pc'[r] = "commit") =>
            /\ Len(links') = Len(links)
            /\ links'[loc[r].newKey].Path = loc'[r].finalPath
            /\ loc'[r].finalPath # <<>>]_vars

\* a second link was inserted for a chat and a music link, with music info,
\* and its path was finalized
C16_Witness ==
  \E r \in Reqs :
    /\ pc[r] = "commit" /\ req[r].path = <<>>
    /\ loc[r].newKey >= 2
    /\ links[loc[r].newKey] =
         [Path |-> ShortURLEncode(loc[r].newKey),
          TargetURL |-> urlString(urlParse(req[r].target)),
          Creator |-> "u@hms.io", Created |-> req[r].issued, ChatKey |-> {7},
          MusicInfo |-> "info", by |-> r]

\* C17: every link in the store has a target with the scheme http or https
\* and a host other than the serving host of the request that created it, and
\* a creation whose target has the serving host is answered with
\* RedirectLoop.
C17_StoredTargetsAreHttpAndForeign ==
  /\ \A i \in LinkIDs :
       /\ urlParse(links[i].TargetURL).Scheme \in {"http", "https"}
       /\ urlParse(links[i].TargetURL).Host # ServingHost
  /\ \A r \in Reqs :
       (/\ Done(r) /\ req[r].target # "" /\ isValidPath(req[r].path)
        /\ urlParse(req[r].target).ok
        /\ urlParse(req[r].target).Host = ServingHost) =>
         res[r].err = "RedirectLoop"

\* C18: after a GET of /p with chatID c missed and the creation form,
\* submitted with path p, a valid target t and chatID c, created the link,
\* the link is in the scope of chat c, and a following GET of /p with
\* chatID c that finds a link is redirected to t.
C18_MissThenCreateConverges ==
  [][\A r \in Reqs :
       (/\ r \in DoneOK /\ req[r].missed
        /\ lastGet = NoGet /\ lastGet' # NoGet
        /\ lastGet'.path = <<"/">> \o req[r].path
        /\ lastGet'.chatID = req[r].form
        /\ handleUserAuth(lastGet'.user)
        /\ lastGet'.route = "manual") =>
         /\ \E i \in PutBy(r) :
              /\ links[i].Path = req[r].path
              /\ links[i].ChatKey = ScopeOf(ParseChatID(req[r].form).id)
         /\ lastGet'.location[1] = "url" =>
              lastGet'.location = <<"url", urlString(urlParse(req[r].target))>>]_vars

\* the response is one to a request that made no create call: a GET, or a
\* request of a user who is not signed in or not allowed
NoCreateRequest(get) ==
  IF get.route = "legacy"
    THEN get.location = <<>> \/ get.location[1] \notin {"created", "error"}
    ELSE get # NoGet

\* C19: a request that is no create request (the GET of an auto path, of a
\* manual path or of the index, and every request refused because the user
\* is not signed in or not allowed) leaves every stored entity as it was and
\* inserts none.
C19_OnlyCreateMutatesTheStore ==
  [][((lastGet' # lastGet \/ urlMatches' # urlMatches)
        /\ NoCreateRequest(lastGet')) =>
       (links' = links /\ chats' = chats /\ urlMatches' = urlMatches)]_vars

====
